---- MODULE Spec2Model ----
(***************************************************************************)
(* Model of the Silicon Labs Gecko watchdog driver                         *)
(* (drivers/watchdog/wdt_gecko.c): the driver data (callback, staged       *)
(* WDOG_Init_TypeDef, timeout_valid), the four driver API operations, the  *)
(* interrupt service routine, and the WDOG peripheral registers the driver *)
(* reads and writes.                                                       *)
(*                                                                         *)
(* The API operations run on one control thread and are atomic with        *)
(* respect to each other.  The ISR preempts the control thread; its three  *)
(* statements (read flags, clear flags, dispatch callback) are separate    *)
(* steps, so the peripheral may raise a flag between any two of them.      *)
(***************************************************************************)
EXTENDS Integers, Sequences, FiniteSets, TLC

\* ---------------------------------------------------------------- bounds
\* Callbacks are 0 (NULL) and 1..MaxCallback.
MaxCallback == 1
\* The flags field of a request ranges over 0..MaxFlag (3 is unsupported).
MaxFlag == 3
\* The channel id given to feed ranges over 0..MaxChannel.
MaxChannel == 1

\* ------------------------------------------------------ program constants
ENOMEM == 12
EINVAL == 22
WDT_FLAG_RESET_NONE == 0
WDT_FLAG_RESET_CPU_CORE == 1
WDT_FLAG_RESET_SOC == 2
WDT_OPT_PAUSE_IN_SLEEP == 1
WDT_OPT_PAUSE_HALTED_BY_DBG == 2
wdogWarnTime75pct == 3
wdogIllegalWindowDisable == 0
wdogPeriod_256k == 15
wdogClkSelULFRCO == 0
TblSize == 16
WindowSteps == 5
WindowDiv == 8

\* Timeout period in cycles (index i of the C array is element i+1 here).
timeout_in_cycles_tbl ==
    <<9, 17, 33, 65, 129, 257, 513, 1025, 2049, 4097,
      8193, 16385, 32769, 65537, 131073, 262145>>

Tbl(i) == timeout_in_cycles_tbl[i + 1]

\* The two interrupt sources the driver uses (WDOG_IEN_TOUT | WDOG_IF_WARN).
IntFlags == {"TOUT", "WARN"}

\* ------------------------------------------------------------- quantizer
RECURSIVE convert_timeout_loop(_, _)
convert_timeout_loop(timeout, idx) ==
    IF idx < TblSize
    THEN IF timeout > Tbl(idx)
         THEN convert_timeout_loop(timeout, idx + 1)
         ELSE idx
    ELSE idx

\* Mutant: the search starts at the second table entry.
convert_timeout_StartsAtOne(timeout) == convert_timeout_loop(timeout, 1)

\* Mutant: the search clamps to the last table index.
convert_timeout_Clamps(timeout) ==
    IF convert_timeout_loop(timeout, 0) >= TblSize
    THEN TblSize - 1
    ELSE convert_timeout_loop(timeout, 0)

wdt_gecko_convert_timeout(timeout) == convert_timeout_loop(timeout, 0)

\* comp_val never exceeds 5 * (period / 8), so the u32_t addition cannot wrap.
RECURSIVE convert_window_loop(_, _, _, _)
convert_window_loop(window, incr_val, comp_val, idx) ==
    IF idx < WindowSteps
    THEN IF window > comp_val
         THEN convert_window_loop(window, incr_val, comp_val + incr_val,
                                  idx + 1)
         ELSE idx
    ELSE idx

\* Mutant: the first threshold compared is one increment, not 0.
convert_window_StartsAtIncrement(window, period) ==
    convert_window_loop(window, period \div WindowDiv,
                        period \div WindowDiv, 0)

\* Mutant: the increment is rounded up instead of down.
convert_window_RoundsUp(window, period) ==
    convert_window_loop(window, (period + WindowDiv - 1) \div WindowDiv, 0, 0)

\* Mutant: the loop stops one step early.
convert_window_StopsEarly(window, period) ==
    IF convert_window_loop(window, period \div WindowDiv, 0, 0) >= WindowSteps
    THEN WindowSteps - 1
    ELSE convert_window_loop(window, period \div WindowDiv, 0, 0)

wdt_gecko_convert_window(window, period) ==
    convert_window_loop(window, period \div WindowDiv, 0, 0)

\* ----------------------------------------------------------- data types
\* WDOG_INIT_DEFAULT of the vendor library, as used at line 138.
WDOG_INIT_DEFAULT ==
    [enable |-> TRUE, debugRun |-> FALSE, em2Run |-> FALSE, em3Run |-> FALSE,
     em4Block |-> FALSE, swoscBlock |-> FALSE, lock |-> FALSE,
     clkSel |-> wdogClkSelULFRCO, perSel |-> wdogPeriod_256k, warnSel |-> 0,
     winSel |-> wdogIllegalWindowDisable, resetDisable |-> FALSE]

\* A zero-initialised WDOG_Init_TypeDef (static storage).
ZeroConfig ==
    [enable |-> FALSE, debugRun |-> FALSE, em2Run |-> FALSE, em3Run |-> FALSE,
     em4Block |-> FALSE, swoscBlock |-> FALSE, lock |-> FALSE,
     clkSel |-> 0, perSel |-> 0, warnSel |-> 0,
     winSel |-> 0, resetDisable |-> FALSE]

\* The <<window.max, window.min>> pairs the callers pass: below the table,
\* a short period in normal mode, the longest period in window mode, above
\* the table.
Windows == {<<1, 0>>, <<10, 0>>, <<262145, 2>>, <<262146, 0>>}

\* struct wdt_timeout_cfg
Requests ==
    {[window_max |-> w[1], window_min |-> w[2], flags |-> f, callback |-> c] :
        w \in Windows, f \in 0..MaxFlag, c \in 0..MaxCallback}

Options == 0..3

\* Mutant: the test is inverted, (options & bit) != 0.
BitTestInverted(options, bit) == (options \div bit) % 2 = 1

\* Bit test (options & bit) == 0 for the two single-bit option masks.
BitClear(options, bit) == (options \div bit) % 2 = 0

VARIABLES
    callback,       \* data->callback (0 is NULL)
    wdog_config,    \* data->wdog_config
    timeout_valid,  \* data->timeout_valid
    hw_cfg,         \* configuration last written to the peripheral by WDOGn_Init
    hw_en,          \* peripheral is counting (CTRL.EN)
    hw_ien,         \* peripheral interrupt enable register
    hw_if,          \* peripheral interrupt flag register
    fed,            \* number of WDOGn_Feed calls issued by the last API call
    isr_pc,         \* position of wdt_gecko_isr
    isr_flags,      \* the ISR's local variable flags
    cb_call,        \* <<callback, channel id>> of the running callback, or <<>>
    call,           \* the last call: its name and scalar argument
    ret             \* return value of the last call

data == <<callback, wdog_config, timeout_valid>>
hw == <<hw_cfg, hw_en, hw_ien, hw_if>>
isr == <<isr_pc, isr_flags, cb_call>>
vars == <<callback, wdog_config, timeout_valid, hw_cfg, hw_en, hw_ien, hw_if,
          fed, isr_pc, isr_flags, cb_call, call, ret>>

\* arg is the options of setup or the channel id of feed, 0 otherwise.
Call(op, arg) == [op |-> op, arg |-> arg]

\* State after wdt_gecko_init: static data zeroed, peripheral in reset state.
Init ==
    /\ callback = 0
    /\ wdog_config = ZeroConfig
    /\ timeout_valid = FALSE
    /\ hw_cfg = ZeroConfig
    /\ hw_en = FALSE
    /\ hw_ien = {}
    /\ hw_if = {}
    /\ fed = 0
    /\ isr_pc = "idle"
    /\ isr_flags = {}
    /\ cb_call = <<>>
    /\ call = Call("init", 0)
    /\ ret = 0

\* ------------------------------------------------------- API operations
\* Mutant: the staged configuration is not reset to the defaults first.
StagedKeepsOld(cfg) ==
    LET perSel == wdt_gecko_convert_timeout(cfg.window_max)
        winSel == IF cfg.window_min # 0
                  THEN wdt_gecko_convert_window(cfg.window_min, Tbl(perSel))
                  ELSE wdogIllegalWindowDisable
    IN [wdog_config EXCEPT !.perSel = perSel, !.winSel = winSel,
                           !.warnSel = wdogWarnTime75pct]

\* Mutant: the early warning setting is left at its default.
StagedWithoutWarn(cfg) ==
    LET perSel == wdt_gecko_convert_timeout(cfg.window_max)
        winSel == IF cfg.window_min # 0
                  THEN wdt_gecko_convert_window(cfg.window_min, Tbl(perSel))
                  ELSE wdogIllegalWindowDisable
    IN [WDOG_INIT_DEFAULT EXCEPT !.perSel = perSel, !.winSel = winSel]

\* The staged configuration install_timeout has written when it reaches the
\* switch on cfg->flags (lines 152-171).
StagedBeforeFlags(cfg) ==
    LET perSel == wdt_gecko_convert_timeout(cfg.window_max)
        winSel == IF cfg.window_min # 0
                  THEN wdt_gecko_convert_window(cfg.window_min, Tbl(perSel))
                  ELSE wdogIllegalWindowDisable
    IN [WDOG_INIT_DEFAULT EXCEPT !.perSel = perSel, !.winSel = winSel,
                                 !.warnSel = wdogWarnTime75pct]

\* Mutant: a second timeout is accepted.
InstallSlotAlwaysFree == FALSE

\* Mutant: a second timeout is refused only until the watchdog is started.
InstallSlotFreeOnceStarted == timeout_valid /\ ~hw_en

\* if (data->timeout_valid): no more timeouts can be installed
InstallNoFreeSlot == timeout_valid

\* Mutant: only the lower limit of the period table is checked.
InstallChecksLowerLimit(cfg) == cfg.window_max < Tbl(0)

\* if (window.max < tbl[0] || window.max > tbl[ARRAY_SIZE - 1]): upper limit
\* timeout out of range
InstallOutOfRange(cfg) ==
    \/ cfg.window_max < Tbl(0)
    \/ cfg.window_max > Tbl(TblSize - 1)

wdt_gecko_install_timeout(cfg) ==
    /\ isr_pc = "idle"
    /\ call' = Call("install_timeout", 0)
    /\ fed' = 0
    /\ UNCHANGED <<hw, isr>>
    /\ IF InstallNoFreeSlot
       THEN /\ ret' = -ENOMEM
            /\ UNCHANGED data
       ELSE IF InstallOutOfRange(cfg)
       THEN /\ ret' = -EINVAL
            /\ UNCHANGED data
       ELSE IF cfg.flags \in {WDT_FLAG_RESET_SOC, WDT_FLAG_RESET_CPU_CORE}
       THEN /\ ret' = 0
            /\ callback' = cfg.callback
            /\ timeout_valid' = TRUE
            /\ wdog_config' =
                   [StagedBeforeFlags(cfg) EXCEPT !.resetDisable = FALSE]
       ELSE IF cfg.flags = WDT_FLAG_RESET_NONE
       THEN /\ ret' = 0
            /\ callback' = cfg.callback
            /\ timeout_valid' = TRUE
            /\ wdog_config' =
                   [StagedBeforeFlags(cfg) EXCEPT !.resetDisable = TRUE]
       ELSE /\ ret' = -EINVAL
            /\ UNCHANGED <<callback, timeout_valid>>
            /\ wdog_config' = StagedBeforeFlags(cfg)

\* Mutant: setup does not check that a timeout is installed.
SetupNeverRejects == FALSE

\* if (!data->timeout_valid): no valid timeouts installed
SetupNoValidTimeout == ~timeout_valid

\* Mutant: the interrupts are enabled for a callback but never disabled.
SetupOnlyEnables ==
    IF callback # 0 THEN hw_ien \cup IntFlags ELSE hw_ien

\* WDOGn_IntEnable / WDOGn_IntDisable of the timeout and warning interrupts
SetupIntEnables ==
    IF callback # 0 THEN hw_ien \cup IntFlags ELSE hw_ien \ IntFlags

wdt_gecko_setup(options) ==
    /\ isr_pc = "idle"
    /\ call' = Call("setup", options)
    /\ fed' = 0
    /\ UNCHANGED <<callback, timeout_valid, isr, hw_if>>
    /\ IF SetupNoValidTimeout
       THEN /\ ret' = -EINVAL
            /\ UNCHANGED <<wdog_config, hw_cfg, hw_en, hw_ien>>
       ELSE /\ wdog_config' =
                   [wdog_config EXCEPT
                      !.em2Run = BitClear(options, WDT_OPT_PAUSE_IN_SLEEP),
                      !.em3Run = BitClear(options, WDT_OPT_PAUSE_IN_SLEEP),
                      !.debugRun = BitClear(options, WDT_OPT_PAUSE_HALTED_BY_DBG)]
            /\ hw_ien' = SetupIntEnables
            \* WDOGn_Init writes the configuration and starts the watchdog
            /\ hw_cfg' = wdog_config'
            /\ hw_en' = wdog_config'.enable
            /\ ret' = 0

\* Mutant: disable does not stop the peripheral.
DisableLeavesCounting == hw_en

\* WDOGn_Enable(wdog, false): the value of CTRL.EN afterwards
DisableHwEnable == FALSE

wdt_gecko_disable ==
    /\ isr_pc = "idle"
    /\ call' = Call("disable", 0)
    /\ fed' = 0
    /\ hw_en' = DisableHwEnable
    /\ timeout_valid' = FALSE
    /\ ret' = 0
    /\ UNCHANGED <<callback, wdog_config, hw_cfg, hw_ien, hw_if, isr>>

\* Mutant: every channel id is accepted.
FeedAcceptsAnyChannel(channel_id) == FALSE

\* Mutant: feed is also rejected unless the watchdog is set up and counting.
FeedRejectsUnlessRunning(channel_id) ==
    channel_id # 0 \/ ~(timeout_valid /\ hw_en)

\* if (channel_id != 0): invalid channel id
FeedInvalidChannel(channel_id) == channel_id # 0

wdt_gecko_feed(channel_id) ==
    /\ isr_pc = "idle"
    /\ call' = Call("feed", channel_id)
    /\ UNCHANGED <<data, hw, isr>>
    /\ IF FeedInvalidChannel(channel_id)
       THEN /\ ret' = -EINVAL
            /\ fed' = 0
       ELSE /\ fed' = 1
            /\ ret' = 0

\* ------------------------------------------------------------------ ISR
\* flags = WDOGn_IntGet(wdog); the ISR is entered when an enabled flag is
\* pending.
isr_IntGet ==
    /\ isr_pc = "idle"
    /\ hw_if \cap hw_ien # {}
    /\ isr_flags' = hw_if
    /\ isr_pc' = "clear"
    /\ UNCHANGED <<data, hw, fed, cb_call, call, ret>>

\* Mutant: the ISR clears a fixed mask instead of the flags it read.
IsrClearsFixedMask == IntFlags

\* The mask handed to WDOGn_IntClear
IsrClearMask == isr_flags

\* WDOGn_IntClear(wdog, flags)
isr_IntClear ==
    /\ isr_pc = "clear"
    /\ hw_if' = hw_if \ IsrClearMask
    /\ isr_pc' = "dispatch"
    /\ UNCHANGED <<data, hw_cfg, hw_en, hw_ien, fed, isr_flags, cb_call,
                   call, ret>>

\* if (data->callback) data->callback(dev, 0); without a callback the ISR
\* returns and its local flags goes out of scope.
isr_Dispatch ==
    /\ isr_pc = "dispatch"
    /\ IF callback # 0
       THEN /\ cb_call' = <<callback, 0>>
            /\ isr_pc' = "callback"
            /\ UNCHANGED isr_flags
       ELSE /\ isr_pc' = "idle"
            /\ isr_flags' = {}
            /\ UNCHANGED cb_call
    /\ UNCHANGED <<data, hw, fed, call, ret>>

\* The callback returns, and the ISR with it.
isr_Return ==
    /\ isr_pc = "callback"
    /\ isr_pc' = "idle"
    /\ isr_flags' = {}
    /\ cb_call' = <<>>
    /\ UNCHANGED <<data, hw, fed, call, ret>>

\* ----------------------------------------------------------- peripheral
\* The counting watchdog raises an interrupt flag.
HwRaise(f) ==
    /\ hw_en
    /\ f \notin hw_if
    /\ hw_if' = hw_if \cup {f}
    /\ UNCHANGED <<data, hw_cfg, hw_en, hw_ien, fed, isr, call, ret>>

Next ==
    \/ \E cfg \in Requests : wdt_gecko_install_timeout(cfg)
    \/ \E options \in Options : wdt_gecko_setup(options)
    \/ wdt_gecko_disable
    \/ \E channel_id \in 0..MaxChannel : wdt_gecko_feed(channel_id)
    \/ isr_IntGet
    \/ isr_IntClear
    \/ isr_Dispatch
    \/ isr_Return
    \/ \E f \in IntFlags : HwRaise(f)

Spec == Init /\ [][Next]_vars

\* ------------------------------------------------------ lifecycle states
Uninitialized == ~timeout_valid
ConfigInstalled == timeout_valid /\ ~hw_en
Running == timeout_valid /\ hw_en

\* A request install_timeout accepts when no timeout is installed.
ValidRequest(cfg) ==
    /\ cfg.window_max >= 9
    /\ cfg.window_max <= 262145
    /\ cfg.flags \in {WDT_FLAG_RESET_NONE, WDT_FLAG_RESET_CPU_CORE,
                      WDT_FLAG_RESET_SOC}

\* The staged configuration as a function of the request alone.
ResolvedConfig(cfg) ==
    [enable |-> TRUE, debugRun |-> FALSE, em2Run |-> FALSE, em3Run |-> FALSE,
     em4Block |-> FALSE, swoscBlock |-> FALSE, lock |-> FALSE, clkSel |-> 0,
     perSel |-> wdt_gecko_convert_timeout(cfg.window_max),
     warnSel |-> 3,
     winSel |-> IF cfg.window_min = 0 THEN 0
                ELSE wdt_gecko_convert_window(
                         cfg.window_min,
                         Tbl(wdt_gecko_convert_timeout(cfg.window_max))),
     resetDisable |-> (cfg.flags = WDT_FLAG_RESET_NONE)]

\* The configuration setup programs, given the staged one and the options.
WithPause(config, options) ==
    [config EXCEPT !.em2Run = options \notin {1, 3},
                   !.em3Run = options \notin {1, 3},
                   !.debugRun = options \notin {2, 3}]

\* A step in which the control thread performs the API operation op (the
\* ISR steps move isr_pc, the peripheral's step changes hw_if).
ApiCall(op) ==
    /\ isr_pc = "idle"
    /\ isr_pc' = "idle"
    /\ hw_if' = hw_if
    /\ call'.op = op

\* ---------------------------------------------------------------- claims

\* C1: while a timeout is installed (ConfigInstalled or Running), every
\* install_timeout, whatever the request, returns -ENOMEM and leaves the
\* staged configuration, the callback, the validity flag and the peripheral
\* exactly as they were.
C1_SecondInstallRejected ==
    [][(timeout_valid /\ ApiCall("install_timeout"))
         => (ret' = -ENOMEM /\ UNCHANGED <<data, hw>>)]_vars

C1_Witness ==
    /\ call.op = "install_timeout"
    /\ ret = -ENOMEM
    /\ Running

\* C2: an install_timeout, setup or feed that returns an error leaves the
\* driver data and the peripheral exactly as they were before the call.
C2_ErrorLeavesStateUnchanged ==
    [][((\/ ApiCall("install_timeout")
         \/ ApiCall("setup")
         \/ ApiCall("feed"))
        /\ ret' # 0)
         => UNCHANGED <<data, hw>>]_vars

\* C3: disable leaves the driver Uninitialized with the peripheral stopped;
\* from Uninitialized an install_timeout with a valid request succeeds and
\* stages a configuration and callback that are functions of that request
\* alone; a setup that follows succeeds, starts the peripheral and programs
\* that staged configuration with the pause settings of its own options.
C3_FreshConfigAfterDisable ==
    [][/\ ApiCall("disable") => (Uninitialized' /\ ~hw_en')
       /\ (Uninitialized /\ ApiCall("install_timeout"))
            => \A cfg \in Requests :
                 (ValidRequest(cfg) /\ wdt_gecko_install_timeout(cfg))
                   => /\ ret' = 0
                      /\ ConfigInstalled'
                      /\ wdog_config' = ResolvedConfig(cfg)
                      /\ callback' = cfg.callback
       /\ (timeout_valid /\ ApiCall("setup"))
            => /\ ret' = 0
               /\ Running'
               /\ hw_cfg' = WithPause(wdog_config, call'.arg)
               /\ callback' = callback]_vars

\* A fresh request without callback was installed after an earlier
\* configuration with a callback and another period ran and was disabled.
C3_Witness ==
    /\ call.op = "install_timeout"
    /\ ret = 0
    /\ ConfigInstalled
    /\ callback = 0
    /\ hw_ien = IntFlags
    /\ hw_cfg.enable
    /\ hw_cfg.perSel # wdog_config.perSel

\* C4: setup with no timeout installed returns -EINVAL and leaves the
\* peripheral (configuration, counting, interrupt enables) untouched; setup
\* in ConfigInstalled returns 0, programs the staged configuration and
\* leaves the peripheral counting.
C4_SetupNeedsInstalledTimeout ==
    [][ApiCall("setup")
         => /\ Uninitialized => (ret' = -EINVAL /\ UNCHANGED <<data, hw>>)
            /\ ConfigInstalled
                 => /\ ret' = 0
                    /\ Running'
                    /\ hw_cfg' = wdog_config'
                    /\ wdog_config' = WithPause(wdog_config, call'.arg)]_vars

C4_Witness ==
    /\ call.op = "setup"
    /\ ret = -EINVAL
    /\ Uninitialized
    /\ hw_cfg.enable

\* C5: feed with a channel id other than 0 returns -EINVAL in every state
\* and issues no feed to the peripheral; feed(0) in Running returns 0,
\* issues exactly one feed, and leaves the driver data unchanged.
C5_FeedChannel ==
    [][ApiCall("feed")
         => /\ call'.arg # 0
                 => (ret' = -EINVAL /\ fed' = 0 /\ UNCHANGED <<data, hw>>)
            /\ (call'.arg = 0 /\ Running)
                 => (ret' = 0 /\ fed' = 1 /\ UNCHANGED <<data, hw>>)]_vars

C5_Witness ==
    /\ call = Call("feed", 0)
    /\ Running
    /\ ret = 0
    /\ fed = 1

\* C2 (case): install_timeout from Uninitialized with an in-range window and
\* an unsupported flags value has returned -EINVAL, and the staged
\* configuration is no longer the zero-initialised one it was.
C2_Witness ==
    /\ call.op = "install_timeout"
    /\ ret = -EINVAL
    /\ Uninitialized
    /\ wdog_config # ZeroConfig

\* C6 (as stated): outside Running, feed(0) does not return success and
\* issues no feed to the peripheral.
C6_FeedOnlyInRunning ==
    (call = Call("feed", 0) /\ ~Running) => (ret # 0 /\ fed = 0)

\* C6 (amended): feed does not look at the lifecycle state; in
\* Uninitialized and in ConfigInstalled, feed(0) returns 0 and issues one
\* feed to the peripheral.
C6_FeedIgnoresLifecycle ==
    (call = Call("feed", 0) /\ ~Running) => (ret = 0 /\ fed = 1)

C6_Witness ==
    /\ call = Call("feed", 0)
    /\ ConfigInstalled
    /\ ret = 0
    /\ fed = 1

\* C7: disable returns 0 from every state and leaves the peripheral stopped
\* and no timeout installed; in Uninitialized it changes neither the driver
\* data nor the peripheral, so a second disable changes nothing.
C7_DisableFromAnyState ==
    [][ApiCall("disable")
         => /\ ret' = 0
            /\ ~hw_en'
            /\ Uninitialized'
            /\ Uninitialized => UNCHANGED <<data, hw>>]_vars

C7_Witness ==
    /\ call.op = "disable"
    /\ ret = 0
    /\ Uninitialized
    /\ ~hw_en
    /\ hw_cfg.enable

\* C8: the ISR clears exactly the flags it read, so a flag raised between
\* the read and the clear stays pending; it then invokes the registered
\* callback once with channel id 0, or nothing when none is registered;
\* no other step invokes a callback.
C8_IsrReadThenClear ==
    [][/\ (isr_pc = "idle" /\ isr_pc' # "idle")
            => (isr_pc' = "clear" /\ isr_flags' = hw_if /\ hw_if' = hw_if)
       /\ (isr_pc = "clear" /\ isr_pc' # "clear")
            => (isr_pc' = "dispatch" /\ hw_if' = hw_if \ isr_flags)
       /\ (isr_pc = "dispatch" /\ isr_pc' # "dispatch")
            => IF callback # 0
               THEN isr_pc' = "callback" /\ cb_call' = <<callback, 0>>
               ELSE isr_pc' = "idle" /\ cb_call' = <<>>
       /\ (isr_pc = "callback" /\ isr_pc' # "callback")
            => (isr_pc' = "idle" /\ cb_call' = <<>>)
       /\ cb_call' # cb_call => isr_pc \in {"dispatch", "callback"}]_vars

\* The callback runs while a flag raised after the ISR's read is pending.
C8_Witness ==
    /\ isr_pc = "callback"
    /\ cb_call = <<1, 0>>
    /\ isr_flags = {"WARN"}
    /\ hw_if = {"TOUT"}

\* C9: once disable has returned and until the next API call, the timeout
\* and warning interrupts are disabled, no callback is registered and no
\* callback runs.
C9_DisableMasksAndClears ==
    call.op = "disable"
        => (hw_ien \cap IntFlags = {} /\ callback = 0 /\ cb_call = <<>>)

\* C9 (case): after disable the callback of the discarded configuration
\* runs.
C9_Witness ==
    /\ call.op = "disable"
    /\ Uninitialized
    /\ isr_pc = "callback"
    /\ cb_call = <<1, 0>>

\* C10: in Running, the timeout and warning interrupts are both enabled
\* when a callback is registered and both disabled when none is.
C10_InterruptsFollowCallback ==
    Running => IF callback # 0
               THEN IntFlags \subseteq hw_ien
               ELSE hw_ien \cap IntFlags = {}

\* setup has succeeded for a configuration with a callback, and an
\* enabled interrupt of the counting peripheral has entered the ISR.
C10_Witness ==
    /\ call.op = "setup"
    /\ ret = 0
    /\ Running
    /\ callback # 0
    /\ hw_ien = IntFlags
    /\ isr_pc = "clear"

\* ================================================== quantizer in isolation
\* The two static conversion functions called on their own, and
\* install_timeout over requests around every table entry.

\* How far around each table entry and window threshold the inputs reach.
Near == 1
\* Timeouts 0..MaxSmall and periods 1..MaxSmall are all tried.
MaxSmall == 20
\* The largest value of the model's integers (the u32_t inputs are cut here).
MaxInt == 2147483647

\* Inputs of wdt_gecko_convert_timeout.
QTimeouts ==
    (0..MaxSmall)
      \cup {Tbl(i) + d : i \in 0..(TblSize - 1), d \in (0 - Near)..Near}
      \cup {MaxInt}

\* Periods given to wdt_gecko_convert_window: the table entries and the
\* small values, among them those below 8 whose eighth is 0.
QPeriods == {Tbl(i) : i \in 0..(TblSize - 1)} \cup (1..MaxSmall)

\* Inputs <<window, period>> of wdt_gecko_convert_window: around every
\* multiple of period / 8 up to 6, the period itself and a large window.
QWindowArgs ==
    {a \in {<<w, p>> : w \in 0..(MaxSmall \div 2), p \in 1..MaxSmall}
              \cup UNION {{<<k * (p \div WindowDiv) + d, p>> :
                              k \in 0..6, d \in (0 - Near)..Near} \cup
                          {<<p, p>>, <<MaxInt, p>>} : p \in QPeriods} :
        a[1] >= 0}

\* Requests given to install_timeout here: every timeout in normal mode,
\* and every timeout within the table also in window mode, with window.min
\* 1 and with window.min equal to window.max.
QRequest(m, n) ==
    [window_max |-> m, window_min |-> n, flags |-> WDT_FLAG_RESET_SOC,
     callback |-> 0]

QRequests ==
    {QRequest(m, 0) : m \in QTimeouts}
      \cup {QRequest(m, 1) : m \in {t \in QTimeouts : t >= 9 /\ t <= 262145}}
      \cup {QRequest(m, m) : m \in {t \in QTimeouts : t >= 9 /\ t <= 262145}}

QInit ==
    /\ callback = 0
    /\ wdog_config = ZeroConfig
    /\ timeout_valid = FALSE
    /\ hw_cfg = ZeroConfig
    /\ hw_en = FALSE
    /\ hw_ien = {}
    /\ hw_if = {}
    /\ fed = 0
    /\ isr_pc = "idle"
    /\ isr_flags = {}
    /\ cb_call = <<>>
    /\ ret = 0
    /\ call \in {Call("init", 0)}
                 \cup {Call("enter_convert_timeout", t) : t \in QTimeouts}
                 \cup {Call("enter_convert_window", a) : a \in QWindowArgs}

\* idx = wdt_gecko_convert_timeout(timeout)
q_convert_timeout ==
    /\ call.op = "enter_convert_timeout"
    /\ call' = Call("convert_timeout", call.arg)
    /\ ret' = wdt_gecko_convert_timeout(call.arg)
    /\ UNCHANGED <<data, hw, fed, isr>>

\* idx = wdt_gecko_convert_window(window, period)
q_convert_window ==
    /\ call.op = "enter_convert_window"
    /\ call' = Call("convert_window", call.arg)
    /\ ret' = wdt_gecko_convert_window(call.arg[1], call.arg[2])
    /\ UNCHANGED <<data, hw, fed, isr>>

\* The driver's state, as opposed to a conversion called on its own.
InDriver == call.op \in {"init", "install_timeout", "disable"}

QNext ==
    \/ q_convert_timeout
    \/ q_convert_window
    \/ InDriver /\ \E cfg \in QRequests : wdt_gecko_install_timeout(cfg)
    \/ InDriver /\ wdt_gecko_disable

QSpec == QInit /\ [][QNext]_vars

\* The smallest index of the table whose entry is at least t.
CeilIndex(t) ==
    CHOOSE i \in 0..(TblSize - 1) :
        /\ Tbl(i) >= t
        /\ \A j \in 0..(TblSize - 1) : Tbl(j) >= t => i <= j

\* The multiples k of period / 8, k in 0..4, that reach the window.
Reaching(window, period) ==
    {k \in 0..4 : window <= k * (period \div 8)}

\* The least element of a non-empty set of naturals.
Least(S) == CHOOSE k \in S : \A j \in S : k <= j

\* C13: for every timeout in [9, 262145], convert_timeout returns the
\* smallest index whose table entry is at least the timeout; it returns 0
\* for 9, 1 for 10 and 15 for 262145.
C13_ConvertTimeoutCeiling ==
    (call.op = "convert_timeout" /\ call.arg >= 9 /\ call.arg <= 262145)
        => /\ ret = CeilIndex(call.arg)
           /\ call.arg = 9 => ret = 0
           /\ call.arg = 10 => ret = 1
           /\ call.arg = 262145 => ret = 15

C13_Witness ==
    /\ call = Call("convert_timeout", 131074)
    /\ ret = 15

\* C14: for a period above 0 and a window that some k * (period / 8) with k
\* in 0..4 reaches, convert_window returns the smallest such k; it returns 0
\* exactly when the window is 0.
C14_ConvertWindowSmallest ==
    (call.op = "convert_window" /\ call.arg[2] > 0)
        => /\ Reaching(call.arg[1], call.arg[2]) # {}
                => ret = Least(Reaching(call.arg[1], call.arg[2]))
           /\ ret = 0 <=> call.arg[1] = 0

C14_Witness ==
    /\ call = Call("convert_window", <<4097, 16385>>)
    /\ ret = 3

\* C15 as stated: convert_window never returns an index above 4, returns 4
\* for every window above the highest threshold, and the winSel of every
\* staged configuration lies in 0..4.
C15_WindowIndexAtMostFour ==
    /\ (call.op = "convert_window" /\ call.arg[2] > 0)
         => /\ ret \in 0..4
            /\ call.arg[1] > 4 * (call.arg[2] \div 8) => ret = 4
    /\ timeout_valid => wdog_config.winSel \in 0..4

\* C15, amended: convert_window returns an index in 0..5 and never errs; it
\* returns 5 exactly for the windows above 4 * (period / 8), so the winSel of
\* every staged configuration lies in 0..5.
C15_WindowIndexAtMostFive ==
    /\ (call.op = "convert_window" /\ call.arg[2] > 0)
         => /\ ret \in 0..5
            /\ ret = 5 <=> call.arg[1] > 4 * (call.arg[2] \div 8)
    /\ timeout_valid => wdog_config.winSel \in 0..5

\* A request whose window.min equals its window.max = 9 staged index 5.
C15_Witness ==
    /\ call.op = "install_timeout"
    /\ ret = 0
    /\ timeout_valid
    /\ wdog_config.perSel = 0
    /\ wdog_config.winSel = 5

\* C16 as stated: convert_window(0, 65537) is 0 and convert_window(8193,
\* 65537) is 1.
C16_ExampleAsStated ==
    /\ call = Call("convert_window", <<0, 65537>>) => ret = 0
    /\ call = Call("convert_window", <<8193, 65537>>) => ret = 1

\* C16, amended: with period 65537 the increment is 8192; convert_window
\* returns 0 for window 0, 1 for window 8192 and 2 for window 8193.
C16_ExampleAmended ==
    /\ call = Call("convert_window", <<0, 65537>>) => ret = 0
    /\ call = Call("convert_window", <<8192, 65537>>) => ret = 1
    /\ call = Call("convert_window", <<8193, 65537>>) => ret = 2

C16_Witness ==
    /\ call = Call("convert_window", <<8193, 65537>>)
    /\ ret = 2

\* C17: convert_timeout is monotonic non-decreasing (the index returned for
\* a timeout is at most the index of every larger timeout and at least that
\* of every smaller one), returns 0 for every timeout up to 9 and returns
\* 16, one past the table, for every timeout above 262145.
C17_ConvertTimeoutMonotonic ==
    call.op = "convert_timeout"
        => /\ \A b \in QTimeouts :
                /\ call.arg <= b => ret <= wdt_gecko_convert_timeout(b)
                /\ b <= call.arg => wdt_gecko_convert_timeout(b) <= ret
           /\ call.arg <= 9 => ret = 0
           /\ call.arg > 262145 => ret = 16

C17_Witness ==
    /\ call = Call("convert_timeout", 262146)
    /\ ret = 16

\* C12: with no timeout installed, install_timeout with window.max below 9
\* or above 262145 returns -EINVAL and writes nothing; every other request
\* stores a perSel within 0..15 whose table entry is at least window.max.
C12_RangeCheckBeforeIndex ==
    [][(~timeout_valid /\ ApiCall("install_timeout"))
         => \A cfg \in QRequests :
              wdt_gecko_install_timeout(cfg)
                => IF cfg.window_max < 9 \/ cfg.window_max > 262145
                   THEN ret' = -EINVAL /\ UNCHANGED <<data, hw>>
                   ELSE /\ wdog_config'.perSel \in 0..15
                        /\ Tbl(wdog_config'.perSel) >= cfg.window_max]_vars

\* A request above the table was refused after an earlier one was staged
\* with the last index, and the staged index is still that one.
C12_Witness ==
    /\ call.op = "install_timeout"
    /\ ret = -EINVAL
    /\ ~timeout_valid
    /\ wdog_config.perSel = 15
    /\ wdog_config.winSel = 5

\* ------------------------------------------------ claims on the driver
\* The following claims are checked under Spec.

\* C11: with no timeout installed and window.max within the table,
\* install_timeout maps the flags: reset-SoC and reset-core succeed with
\* resetDisable false, no-reset succeeds with resetDisable true, and every
\* other value returns -EINVAL, leaves the driver without an installed
\* timeout and does not register the callback; every success stages the
\* fixed 75% early warning setting.
C11_FlagsToResetMode ==
    [][(Uninitialized /\ ApiCall("install_timeout"))
         => \A cfg \in Requests :
              (/\ cfg.window_max >= 9
               /\ cfg.window_max <= 262145
               /\ wdt_gecko_install_timeout(cfg))
                => IF cfg.flags \in {WDT_FLAG_RESET_SOC,
                                     WDT_FLAG_RESET_CPU_CORE}
                   THEN /\ ret' = 0
                        /\ ~wdog_config'.resetDisable
                        /\ wdog_config'.warnSel = 3
                   ELSE IF cfg.flags = WDT_FLAG_RESET_NONE
                   THEN /\ ret' = 0
                        /\ wdog_config'.resetDisable
                        /\ wdog_config'.warnSel = 3
                   ELSE /\ ret' = -EINVAL
                        /\ ~ConfigInstalled'
                        /\ ~timeout_valid'
                        /\ callback' = callback]_vars

\* A no-reset request with a callback was installed.
C11_Witness ==
    /\ call.op = "install_timeout"
    /\ ret = 0
    /\ ConfigInstalled
    /\ wdog_config.resetDisable
    /\ wdog_config.warnSel = 3
    /\ callback = 1

\* C18 as stated: every install_timeout that writes the callback does so in
\* a state where the timeout and early warning interrupts are disabled.
C18_CallbackWrittenWhileMasked ==
    [][(ApiCall("install_timeout") /\ ret' = 0)
         => hw_ien \cap IntFlags = {}]_vars

\* A callback installed after disable, and not yet committed by setup, is
\* running in the ISR.
C18_Witness ==
    /\ call.op = "install_timeout"
    /\ ret = 0
    /\ ConfigInstalled
    /\ isr_pc = "callback"
    /\ cb_call = <<callback, 0>>

\* C19: whenever the driver is Running the configuration programmed into
\* the peripheral is the staged one; while a timeout stays installed the
\* staged configuration does not change, except that a setup replaces its
\* pause settings by those of its options.
C19_ProgrammedIsStaged ==
    [][/\ Running' => hw_cfg' = wdog_config'
       /\ (timeout_valid /\ timeout_valid')
            => \/ wdog_config' = wdog_config
               \/ /\ ApiCall("setup")
                  /\ wdog_config' = WithPause(wdog_config, call'.arg)
                  /\ hw_cfg' = wdog_config']_vars

\* A setup with both pause options programmed the longest period.
C19_Witness ==
    /\ call = Call("setup", 3)
    /\ ret = 0
    /\ Running
    /\ hw_cfg = wdog_config
    /\ hw_cfg.perSel = 15
    /\ ~hw_cfg.em2Run
    /\ ~hw_cfg.debugRun

\* C20: after a successful setup the peripheral keeps counting in EM2 and
\* EM3 exactly when WDT_OPT_PAUSE_IN_SLEEP is absent from the options of
\* that call, and while halted by the debugger exactly when
\* WDT_OPT_PAUSE_HALTED_BY_DBG is absent, whatever was staged or set up
\* before.
C20_PauseFollowsOptions ==
    (call.op = "setup" /\ ret = 0)
        => /\ hw_cfg.em2Run = (call.arg \notin {1, 3})
           /\ hw_cfg.em3Run = (call.arg \notin {1, 3})
           /\ hw_cfg.debugRun = (call.arg \notin {2, 3})

\* With options 0 nothing is paused, here for a request in window mode.
C20_Witness ==
    /\ call = Call("setup", 0)
    /\ ret = 0
    /\ hw_cfg.em2Run
    /\ hw_cfg.em3Run
    /\ hw_cfg.debugRun
    /\ hw_cfg.winSel = 1

====
